---- MODULE Spec2Model ----
(***************************************************************************)
(* The view counter of src/index.ts: one Express route, GET /view/:repo,   *)
(* backed by one Mongoose model (ViewCount).  A request is a chain of      *)
(* continuations separated by the handler's awaits (findOne, the save of a *)
(* new document, the final save); each continuation is one action.         *)
(*                                                                         *)
(* Time is counted in units of ten minutes, so the 60 * 60 * 1000 ms of    *)
(* line 73 is Hour == 6.                                                   *)
(***************************************************************************)
EXTENDS Integers, Sequences, FiniteSets, TLC

\* ---------------------------------------------------------------- bounds
MaxClock == 7            \* the clock stops here when requests come one at a time
MaxOverlapClock == 1     \* the clock stops here when requests overlap
MaxRequests == 3         \* requests started in one behaviour
MaxHeaderClock == 1      \* the clock stops here when every input shape is tried
MaxHeaderRequests == 2   \* requests started when every input shape is tried

\* ------------------------------------------------------------- constants
Hour == 6                \* 60 * 60 * 1000 ms (line 73), in ten-minute units

Repos == {"repo1", "repo2"}              \* values of req.params.repo
Reqs == {1, 2}                           \* requests that can be in flight together
Absent == "undefined"                    \* a header that was not sent
Forwarded == {Absent, "", "1.2.3.4"}     \* values of req.headers["x-forwarded-for"]
Remotes == {"5.6.7.8", Absent}           \* values of req.socket.remoteAddress
                                         \* (undefined once the socket is destroyed)
NoRequest == [xff |-> Absent, remoteAddress |-> Absent]
NoDoc == [id |-> 0]                      \* null: findOne found nothing / no document held
Undefined == [ip |-> Absent]             \* what Array.prototype.find returns on no match

VARIABLES
    clock,        \* Date.now()
    store,        \* the ViewCount collection, in insertion order; _id = position
    pc,           \* where each request's handler stands
    req,          \* req.headers["x-forwarded-for"] and req.socket.remoteAddress
    repo,         \* const { repo } = req.params
    userIp,       \* const userIp
    countDoc,     \* let countDoc: the in-memory document
    oneHourAgo,   \* const oneHourAgo
    recentEntry,  \* const recentEntry
    res,          \* the sends attempted on res, in order; the first one is delivered
    error,        \* what the catch block caught
    before,       \* history: the key's record when the request arrived
    started,      \* history: number of requests started
    newVisits,    \* history: per key, saved requests that found no recent entry
    arrived       \* history: per key, number of requests started

vars == <<clock, store, pc, repo, userIp, countDoc, oneHourAgo, recentEntry,
          res, error, before, started, newVisits, req, arrived>>

\* ------------------------------------------------------- pure operators

\* String(n): the decimal digits of a non-negative integer, most significant first.
Digit(d) == CASE d = 0 -> "0" [] d = 1 -> "1" [] d = 2 -> "2" [] d = 3 -> "3"
              [] d = 4 -> "4" [] d = 5 -> "5" [] d = 6 -> "6" [] d = 7 -> "7"
              [] d = 8 -> "8" [] d = 9 -> "9"

RECURSIVE String(_)
String(n) == IF n < 10 THEN <<Digit(n)>>
             ELSE Append(String(n \div 10), Digit(n % 10))

\* The badge payload sent with status 200 (lines 80-87 and 101-108).
Badge(views) ==
    [status |-> 200,
     body |-> [schemaVersion |-> 1, label |-> "Profile View",
               message |-> String(views), color |-> "blue"]]

\* The response of the catch block (line 111).
ServerError == [status |-> 500, body |-> "Server Error"]

\* req.headers["x-forwarded-for"] || req.socket.remoteAddress: a missing
\* header and the empty string are both falsy.
UserIpRemoteFirst(xff, remote) == IF remote \in {Absent, ""} THEN xff ELSE remote
UserIp(xff, remote) == IF xff \in {Absent, ""} THEN remote ELSE xff

\* The predicate of the find on line 75.
IsRecentAnyIp(log, ip, since) == log.timestamp > since
IsRecentInclusive(log, ip, since) == log.ip = ip /\ log.timestamp >= since
IsRecent(log, ip, since) == log.ip = ip /\ log.timestamp > since

\* countDoc.ipLogs.find(...): the first matching entry, or undefined.
Find(logs, ip, since) ==
    LET hits == {i \in 1..Len(logs) : IsRecent(logs[i], ip, since)}
    IN  IF hits = {} THEN Undefined
        ELSE logs[CHOOSE i \in hits : \A j \in hits : i <= j]

\* The predicate of the filter on line 96.
KeepAll(log, since) == TRUE
Keep(log, since) == log.timestamp > since

\* countDoc.ipLogs.filter(...): the kept entries, in order.
Filter(logs, since) == SelectSeq(logs, LAMBDA log : Keep(log, since))

\* ViewCount.findOne({ repo }): the _id of the first document of the
\* collection whose repo is k, 0 when there is none.
FindOneAnyRepo(docs, k) == IF docs = <<>> THEN 0 ELSE 1
FindOne(docs, k) ==
    LET hits == {i \in 1..Len(docs) : docs[i].repo = k}
    IN  IF hits = {} THEN 0 ELSE CHOOSE i \in hits : \A j \in hits : i <= j

\* new ViewCount({ repo, views: 0, ipLogs: [] }), as its first save inserts it:
\* Mongoose adds the version key __v = 0.
NewDoc(k) == [repo |-> k, views |-> 0, ipLogs |-> <<>>, v |-> 0]

\* What a document held in memory looks like: the stored fields and its _id.
InMemory(id, doc) ==
    [id |-> id, repo |-> doc.repo, views |-> doc.views, ipLogs |-> doc.ipLogs,
     v |-> doc.v]

\* save() of a document that is already stored and whose ipLogs array was
\* reassigned: Mongoose updates by _id AND the version __v the document was
\* read at, $sets views and ipLogs and increments __v.  Matches tells
\* whether that update finds its document.
MatchesAnyVersion(docs, doc) == doc.id \in 1..Len(docs)
Matches(docs, doc) == doc.id \in 1..Len(docs) /\ docs[doc.id].v = doc.v

UpdatedAdding(docs, doc) ==
    [docs EXCEPT ![doc.id] =
        [repo |-> @.repo, views |-> @.views + doc.views, ipLogs |-> doc.ipLogs,
         v |-> @.v + 1]]
Updated(docs, doc) ==
    [docs EXCEPT ![doc.id] =
        [repo |-> @.repo, views |-> doc.views, ipLogs |-> doc.ipLogs, v |-> @.v + 1]]

\* The schema's ip: { type: String, required: true } (line 29): Mongoose's
\* required validator of a String path turns down undefined and "".
Required(ip) == ip \notin {Absent, ""}

\* The validation save() runs before it writes: every entry of ipLogs
\* carries its required ip.
Valid(doc) == \A i \in 1..Len(doc.ipLogs) : Required(doc.ipLogs[i].ip)

\* The record the store answers a lookup of key k with.
Record(k) == IF FindOne(store, k) = 0 THEN NoDoc
             ELSE InMemory(FindOne(store, k), store[FindOne(store, k)])

\* res.headersSent: a response has already gone out.
HeadersSent(sends) == sends # <<>>

Terminal == {"done", "rejected"}

\* ------------------------------------------------------------------ Init
Init ==
    /\ clock = 0
    /\ store = <<>>
    /\ pc = [r \in Reqs |-> "idle"]
    /\ repo = [r \in Reqs |-> "repo1"]
    /\ userIp = [r \in Reqs |-> Absent]
    /\ countDoc = [r \in Reqs |-> NoDoc]
    /\ oneHourAgo = [r \in Reqs |-> 0]
    /\ recentEntry = [r \in Reqs |-> Undefined]
    /\ res = [r \in Reqs |-> <<>>]
    /\ error = [r \in Reqs |-> "none"]
    /\ before = [r \in Reqs |-> NoDoc]
    /\ started = 0
    /\ newVisits = [k \in Repos |-> 0]
    /\ req = [r \in Reqs |-> NoRequest]
    /\ arrived = [k \in Repos |-> 0]

\* --------------------------------------------------------------- actions

\* Time passes.
Tick(limit) ==
    /\ clock < limit
    /\ clock' = clock + 1
    /\ UNCHANGED <<store, pc, repo, userIp, countDoc, oneHourAgo, recentEntry,
                   res, error, before, started, newVisits, req, arrived>>

\* Lines 57-64: a request arrives, the handler reads repo and userIp and
\* issues findOne.  It takes the lowest free slot.
Start(r, k, xff, remote) ==
    /\ pc[r] = "idle"
    /\ \A s \in Reqs : s < r => pc[s] # "idle"
    /\ pc' = [pc EXCEPT ![r] = "findOne"]
    /\ repo' = [repo EXCEPT ![r] = k]
    /\ userIp' = [userIp EXCEPT ![r] = UserIp(xff, remote)]
    /\ before' = [before EXCEPT ![r] = Record(k)]
    /\ started' = started + 1
    /\ req' = [req EXCEPT ![r] = [xff |-> xff, remoteAddress |-> remote]]
    /\ arrived' = [arrived EXCEPT ![k] = @ + 1]
    /\ UNCHANGED <<clock, store, countDoc, oneHourAgo, recentEntry, res, error,
                   newVisits>>

\* Lines 109-112: the catch block attempts the 500 response.  res.send throws
\* when a response has already gone out, and the handler's promise rejects.
Catch(r, what, sends) ==
    /\ error' = [error EXCEPT ![r] = what]
    /\ res' = [res EXCEPT ![r] = Append(sends, ServerError)]
    /\ pc' = [pc EXCEPT ![r] = IF HeadersSent(sends) THEN "rejected" ELSE "done"]

\* Line 64, findOne resolves with a document.
FindOneFound(r) ==
    /\ pc[r] = "findOne"
    /\ FindOne(store, repo[r]) # 0
    /\ countDoc' = [countDoc EXCEPT ![r] = Record(repo[r])]
    /\ pc' = [pc EXCEPT ![r] = "decide"]
    /\ UNCHANGED <<clock, store, repo, userIp, oneHourAgo, recentEntry, res,
                   error, before, started, newVisits, req, arrived>>

\* Lines 64-69, findOne resolves with null: a new document is built and its
\* save is issued.
FindOneNull(r) ==
    /\ pc[r] = "findOne"
    /\ FindOne(store, repo[r]) = 0
    /\ countDoc' = [countDoc EXCEPT ![r] = InMemory(0, NewDoc(repo[r]))]
    /\ pc' = [pc EXCEPT ![r] = "create"]
    /\ UNCHANGED <<clock, store, repo, userIp, oneHourAgo, recentEntry, res,
                   error, before, started, newVisits, req, arrived>>

\* Line 64, findOne rejects.
FindOneFail(r) ==
    /\ pc[r] = "findOne"
    /\ Catch(r, "store", res[r])
    /\ UNCHANGED <<clock, store, repo, userIp, countDoc, oneHourAgo,
                   recentEntry, before, started, newVisits, req, arrived>>

\* Line 69, the save of the new document resolves: it is inserted.
CreateOk(r) ==
    /\ pc[r] = "create"
    /\ store' = Append(store, NewDoc(repo[r]))
    /\ countDoc' = [countDoc EXCEPT ![r] = InMemory(Len(store) + 1, NewDoc(repo[r]))]
    /\ pc' = [pc EXCEPT ![r] = "decide"]
    /\ UNCHANGED <<clock, repo, userIp, oneHourAgo, recentEntry, res, error,
                   before, started, newVisits, req, arrived>>

\* Line 69, the save of the new document rejects.
CreateFail(r) ==
    /\ pc[r] = "create"
    /\ Catch(r, "store", res[r])
    /\ UNCHANGED <<clock, store, repo, userIp, countDoc, oneHourAgo,
                   recentEntry, before, started, newVisits, req, arrived>>

\* Lines 73-99, one synchronous run: the window, the search for a recent
\* entry, the response when one is found, and - there is no return after
\* that response - the increment, the push, the filter and the issue of save.
Decide(r) ==
    /\ pc[r] = "decide"
    /\ LET since == clock - Hour
           doc == countDoc[r]
           found == Find(doc.ipLogs, userIp[r], since)
           pushed == Append(doc.ipLogs, [ip |-> userIp[r], timestamp |-> clock])
       IN  /\ oneHourAgo' = [oneHourAgo EXCEPT ![r] = since]
           /\ recentEntry' = [recentEntry EXCEPT ![r] = found]
           /\ res' = [res EXCEPT ![r] =
                        IF found # Undefined THEN <<Badge(doc.views)>> ELSE <<>>]
           /\ countDoc' = [countDoc EXCEPT ![r] =
                             [doc EXCEPT !.views = @ + 1,
                                         !.ipLogs = Filter(pushed, since)]]
    /\ pc' = [pc EXCEPT ![r] = "save"]
    /\ UNCHANGED <<clock, store, repo, userIp, error, before, started, newVisits, req, arrived>>

\* Lines 99-108, the save resolves: the document is written, then the badge
\* is sent.  When a response has already gone out that send throws, the catch
\* block's send throws too, and the handler's promise rejects.
SaveOk(r) ==
    /\ pc[r] = "save"
    /\ Valid(countDoc[r])
    /\ Matches(store, countDoc[r])
    /\ store' = Updated(store, countDoc[r])
    /\ countDoc' = [countDoc EXCEPT ![r].v = @ + 1]
    /\ IF HeadersSent(res[r])
         THEN Catch(r, "headers", Append(res[r], Badge(countDoc[r].views)))
         ELSE /\ res' = [res EXCEPT ![r] = <<Badge(countDoc[r].views)>>]
              /\ pc' = [pc EXCEPT ![r] = "done"]
              /\ UNCHANGED error
    /\ newVisits' = [newVisits EXCEPT ![repo[r]] =
                        IF recentEntry[r] = Undefined THEN @ + 1 ELSE @]
    /\ UNCHANGED <<clock, repo, userIp, oneHourAgo, recentEntry, before, started,
                   req, arrived>>

\* Line 99, the save rejects with a VersionError: another save of the same
\* document got in between this request's read and its write.
SaveVersionError(r) ==
    /\ pc[r] = "save"
    /\ Valid(countDoc[r])
    /\ ~Matches(store, countDoc[r])
    /\ Catch(r, "version", res[r])
    /\ UNCHANGED <<clock, store, repo, userIp, countDoc, oneHourAgo,
                   recentEntry, before, started, newVisits, req, arrived>>

\* A save that rejects after its write went through.
SaveFailWritten(r) ==
    /\ pc[r] = "save"
    /\ Matches(store, countDoc[r])
    /\ store' = Updated(store, countDoc[r])
    /\ Catch(r, "store", res[r])
    /\ UNCHANGED <<clock, repo, userIp, countDoc, oneHourAgo,
                   recentEntry, before, started, newVisits, req, arrived>>

\* Line 99, the save rejects because the store is unavailable.
SaveFail(r) ==
    /\ pc[r] = "save"
    /\ Valid(countDoc[r])
    /\ Catch(r, "store", res[r])
    /\ UNCHANGED <<clock, store, repo, userIp, countDoc, oneHourAgo,
                   recentEntry, before, started, newVisits, req, arrived>>

\* Line 99, the save rejects with a ValidationError before anything is
\* written: the entry pushed on line 92 has no ip.
SaveInvalid(r) ==
    /\ pc[r] = "save"
    /\ ~Valid(countDoc[r])
    /\ Catch(r, "validation", res[r])
    /\ UNCHANGED <<clock, store, repo, userIp, countDoc, oneHourAgo,
                   recentEntry, before, started, newVisits, req, arrived>>

\* The handler's promise rejected (the send of the catch block threw, lines
\* 109-112) and nothing handles the rejection: where the runtime treats an
\* unhandled rejection as fatal the process exits, and the requests still
\* being handled are cut off.  Where it does not, Release is the next step.
Crash ==
    /\ \E r \in Reqs : pc[r] = "rejected"
    /\ pc' = [s \in Reqs |->
                IF pc[s] \in {"findOne", "create", "decide", "save"}
                THEN "aborted" ELSE "down"]
    /\ UNCHANGED <<clock, store, repo, userIp, countDoc, oneHourAgo, recentEntry,
                   res, error, before, started, newVisits, req, arrived>>

\* The request is over; its slot is free for the next one.
Release(r) ==
    /\ pc[r] \in Terminal
    /\ pc' = [pc EXCEPT ![r] = "idle"]
    /\ userIp' = [userIp EXCEPT ![r] = Absent]
    /\ repo' = [repo EXCEPT ![r] = "repo1"]
    /\ countDoc' = [countDoc EXCEPT ![r] = NoDoc]
    /\ oneHourAgo' = [oneHourAgo EXCEPT ![r] = 0]
    /\ recentEntry' = [recentEntry EXCEPT ![r] = Undefined]
    /\ res' = [res EXCEPT ![r] = <<>>]
    /\ error' = [error EXCEPT ![r] = "none"]
    /\ before' = [before EXCEPT ![r] = NoDoc]
    /\ req' = [req EXCEPT ![r] = NoRequest]
    /\ UNCHANGED <<clock, store, started, newVisits, arrived>>

\* -------------------------------------------------------- specifications

\* A request arrives, its header among xffs and its address among remotes.
ArriveFrom(xffs, remotes, limit) ==
    /\ started < limit
    /\ \E r \in Reqs, k \in Repos, xff \in xffs, remote \in remotes :
          Start(r, k, xff, remote)

Arrive == ArriveFrom(Forwarded \ {""}, Remotes, MaxRequests)

\* Under overlap every request carries an address.
ArriveOverlap == ArriveFrom(Forwarded \ {""}, Remotes \ {Absent}, MaxRequests)

\* No finished request is waiting to be released.  A finished request is
\* released before anything else happens: what it holds is read by no other
\* request.
Quiet == \A r \in Reqs : pc[r] \notin Terminal

\* No request is being handled.
Idle == \A r \in Reqs : pc[r] = "idle"

\* Requests overlap freely.
Next ==
    \/ Quiet /\ Tick(MaxOverlapClock)
    \/ Quiet /\ ArriveOverlap
    \/ \E r \in Reqs : Quiet /\ FindOneFound(r)
    \/ \E r \in Reqs : Quiet /\ FindOneNull(r)
    \/ \E r \in Reqs : Quiet /\ FindOneFail(r)
    \/ \E r \in Reqs : Quiet /\ CreateOk(r)
    \/ \E r \in Reqs : Quiet /\ CreateFail(r)
    \/ \E r \in Reqs : Quiet /\ Decide(r)
    \/ \E r \in Reqs : Quiet /\ SaveOk(r)
    \/ \E r \in Reqs : Quiet /\ SaveVersionError(r)
    \/ \E r \in Reqs : Quiet /\ SaveFail(r)
    \/ \E r \in Reqs : Release(r)
    \/ Crash

Spec == Init /\ [][Next]_vars

\* Requests one after the other: a request arrives when no other is being
\* handled.
SeqNext ==
    \/ Quiet /\ Tick(MaxClock)
    \/ Idle /\ Arrive
    \/ \E r \in Reqs : Quiet /\ FindOneFound(r)
    \/ \E r \in Reqs : Quiet /\ FindOneNull(r)
    \/ \E r \in Reqs : Quiet /\ FindOneFail(r)
    \/ \E r \in Reqs : Quiet /\ CreateOk(r)
    \/ \E r \in Reqs : Quiet /\ CreateFail(r)
    \/ \E r \in Reqs : Quiet /\ Decide(r)
    \/ \E r \in Reqs : Quiet /\ SaveOk(r)
    \/ \E r \in Reqs : Quiet /\ SaveFail(r)
    \/ \E r \in Reqs : Quiet /\ SaveInvalid(r)
    \/ \E r \in Reqs : Release(r)
    \/ Crash

SeqSpec == Init /\ [][SeqNext]_vars

\* Requests one after the other, with every shape of the two inputs userIp is
\* read from: the header missing, empty or set, the address set or missing.
HeaderNext ==
    \/ Quiet /\ Tick(MaxHeaderClock)
    \/ Idle /\ ArriveFrom(Forwarded, Remotes, MaxHeaderRequests)
    \/ \E r \in Reqs : Quiet /\ FindOneFound(r)
    \/ \E r \in Reqs : Quiet /\ FindOneNull(r)
    \/ \E r \in Reqs : Quiet /\ FindOneFail(r)
    \/ \E r \in Reqs : Quiet /\ CreateOk(r)
    \/ \E r \in Reqs : Quiet /\ CreateFail(r)
    \/ \E r \in Reqs : Quiet /\ Decide(r)
    \/ \E r \in Reqs : Quiet /\ SaveOk(r)
    \/ \E r \in Reqs : Quiet /\ SaveFail(r)
    \/ \E r \in Reqs : Quiet /\ SaveInvalid(r)
    \/ \E r \in Reqs : Release(r)
    \/ Crash

HeaderSpec == Init /\ [][HeaderNext]_vars

\* Scenarios A-D of the specification's section 8, as requests that arrive
\* one after the other from an empty store: T0 = 0, T0 + 10 min, T0 + 20 min,
\* T0 + 2 h.  "1.2.3.4" arrives as a forwarded-for header, "5.6.7.8" as the
\* connection's address.
Script ==
    << [repo |-> "repo1", xff |-> "1.2.3.4", remote |-> "5.6.7.8", at |-> 0],
       [repo |-> "repo1", xff |-> "1.2.3.4", remote |-> "5.6.7.8", at |-> 1],
       [repo |-> "repo1", xff |-> Absent, remote |-> "5.6.7.8", at |-> 2],
       [repo |-> "repo1", xff |-> "1.2.3.4", remote |-> "5.6.7.8", at |-> 2 * Hour] >>

ScenarioEnd == MaxClock + Hour

\* The script's requests, each handled at its time, with a store that works.
ScenarioNext ==
    \/ Quiet /\ Tick(ScenarioEnd)
    \/ /\ Idle
       /\ started < Len(Script)
       /\ Start(1, Script[started + 1].repo, Script[started + 1].xff,
                Script[started + 1].remote)
    \/ \E r \in Reqs : Quiet /\ FindOneFound(r)
    \/ \E r \in Reqs : Quiet /\ FindOneNull(r)
    \/ \E r \in Reqs : Quiet /\ CreateOk(r)
    \/ \E r \in Reqs : Quiet /\ Decide(r) /\ clock = Script[started].at
    \/ \E r \in Reqs : Quiet /\ SaveOk(r)
    \/ \E r \in Reqs : Release(r)
    \/ Crash

ScenarioSpec == Init /\ [][ScenarioNext]_vars

\* ------------------------------------------------ what the claims speak of

\* The handler of request r has run lines 73-99.
Decided(r) == pc[r] \in {"save", "done", "rejected"} /\ countDoc[r].id # 0

\* Request r is over and lines 73-99 ran in it.
Handled(r) == pc[r] \in Terminal /\ Decided(r)

\* The time request r was handled at (line 73).
Now(r) == oneHourAgo[r] + Hour

\* Request r is over and every store operation of it succeeded.
Saved(r) == Handled(r) /\ error[r] \notin {"store", "version", "validation"}

\* The attribution entries the key's record held when request r arrived.
LogsBefore(r) == IF before[r] = NoDoc THEN <<>> ELSE before[r].ipLogs

\* The count the key's record held when request r arrived.
ViewsBefore(r) == IF before[r] = NoDoc THEN 0 ELSE before[r].views

\* The entries of request r's own client among them.
OwnBefore(r) ==
    {i \in 1..Len(LogsBefore(r)) : LogsBefore(r)[i].ip = userIp[r]}

\* The response the caller of request r received: the first one sent.
Delivered(r) == res[r][1]

\* ---------------------------------------------------------------- claims

\* C1 (as claimed): when the key's record held an entry of the same client
\* less than one hour old, the request reports the count the record held
\* before it, leaves the stored count unchanged and appends no entry.
C1_Dedupe ==
    \A r \in Reqs :
        (/\ Handled(r)
         /\ \E i \in OwnBefore(r) : Now(r) < LogsBefore(r)[i].timestamp + Hour)
        => /\ Delivered(r) = Badge(ViewsBefore(r))
           /\ Record(repo[r]).views = ViewsBefore(r)
           /\ Len(Record(repo[r]).ipLogs) <= Len(LogsBefore(r))

\* C2 (as claimed): the stored count of a key is the number of new visits
\* saved for it, and the first request ever made for a key reports "1".
C2_CountIsNewVisits ==
    /\ \A k \in Repos : Record(k) # NoDoc => Record(k).views = newVisits[k]
    /\ \A r \in Reqs :
          (Saved(r) /\ before[r] = NoDoc) => Delivered(r) = Badge(1)

\* C3: a request handled strictly more than one hour after the latest entry
\* of its client in the key's record is a new visit: once saved, the stored
\* count is one more than before, and that count is the one reported.
C3_WindowExpiry ==
    \A r \in Reqs :
        (/\ Saved(r)
         /\ OwnBefore(r) # {}
         /\ \A i \in OwnBefore(r) : Now(r) > LogsBefore(r)[i].timestamp + Hour)
        => /\ Record(repo[r]).views = ViewsBefore(r) + 1
           /\ res[r] = <<Badge(ViewsBefore(r) + 1)>>

C3_Witness ==
    \E r \in Reqs :
        /\ Saved(r)
        /\ OwnBefore(r) # {}
        /\ \A i \in OwnBefore(r) : Now(r) > LogsBefore(r)[i].timestamp + Hour
        /\ \E i \in 1..Len(LogsBefore(r)) : LogsBefore(r)[i].ip # userIp[r]
        /\ Record(repo[r]).views = ViewsBefore(r) + 1

\* C4: right after a request handled at time now has written its record,
\* every entry of the record has timestamp > now - 1 hour, on the new-visit
\* and on the repeat-visit path.
C4_PruningBound ==
    \A r \in Reqs :
        Saved(r) =>
            \A i \in 1..Len(store[countDoc[r].id].ipLogs) :
                store[countDoc[r].id].ipLogs[i].timestamp > Now(r) - Hour

\* A repeat visit whose write dropped an entry that had grown too old.
C4_Witness ==
    \E r \in Reqs :
        /\ Saved(r)
        /\ recentEntry[r] # Undefined
        /\ \E i \in 1..Len(LogsBefore(r)) :
              LogsBefore(r)[i].timestamp <= Now(r) - Hour
        /\ store[countDoc[r].id].ipLogs # <<>>

\* C5: no step lowers or resets the views of a stored document, and no step
\* removes a document, however the requests for a key overlap.
C5_CountNeverDecreases ==
    [][/\ Len(store') >= Len(store)
       /\ \A i \in 1..Len(store) : store'[i].views >= store[i].views]_vars

\* Two requests held the same document and the later save was turned down.
C5_Witness ==
    \E r \in Reqs :
        /\ pc[r] \in Terminal
        /\ error[r] = "version"
        /\ store[countDoc[r].id].views >= countDoc[r].views

\* The stored documents of key k.
RecordsOf(k) == {i \in 1..Len(store) : store[i].repo = k}

\* C6 (as claimed): the store holds at most one record per key, and exactly
\* one for every key a request has completed for.
C6_OneRecordPerKey ==
    /\ \A k \in Repos : Cardinality(RecordsOf(k)) <= 1
    /\ \A r \in Reqs : Saved(r) => Cardinality(RecordsOf(repo[r])) = 1

C8_Scenario ==
    \A r \in Reqs :
        pc[r] \in Terminal =>
            /\ Delivered(r).status = 200
            /\ Delivered(r).body.message =
                  << <<"1">>, <<"1">>, <<"2">>, <<"3">> >>[started]
            /\ started = Len(Script) =>
                  \A i \in 1..Len(Record("repo1").ipLogs) :
                      Record("repo1").ipLogs[i].timestamp # Script[1].at

\* C9 (as claimed): when a store operation of a request failed, its caller
\* received the 500 response and no badge.
C9_FailureResponse ==
    \A r \in Reqs :
        (pc[r] \in Terminal /\ error[r] \in {"store", "version"})
        => Delivered(r) = ServerError

\* C10 (as claimed): after a request that failed before its final save
\* completed, the store holds for the key what it held when the request began.
C10_UnchangedOnError ==
    \A r \in Reqs :
        (pc[r] \in Terminal /\ error[r] = "store")
        => Record(repo[r]) = before[r]

\* C10 (amended): ... or, when the key had no record, the record the request
\* created, with views 0 and no entries.
C10_UnchangedOrCreated ==
    \A r \in Reqs :
        (pc[r] \in Terminal /\ error[r] = "store")
        => \/ Record(repo[r]) = before[r]
           \/ /\ before[r] = NoDoc
              /\ Cardinality(RecordsOf(repo[r])) = 1
              /\ store[FindOne(store, repo[r])] = NewDoc(repo[r])

\* The final save of a request failed on a record that existed before it,
\* after the handler had incremented and pushed in memory.
C10_Witness ==
    \E r \in Reqs :
        /\ Handled(r)
        /\ error[r] = "store"
        /\ before[r] # NoDoc
        /\ countDoc[r].views = before[r].views + 1
        /\ Record(repo[r]) = before[r]

\* C11 (as claimed): a request without a client identifier is handled like
\* any other: unless the store fails it is answered 200, and its identifier
\* is recorded as the key later requests are deduplicated against.
C11_NoIdentifierAccepted ==
    \A r \in Reqs :
        (/\ Handled(r)
         /\ userIp[r] \in {Absent, ""}
         /\ error[r] \notin {"store", "version"})
        => /\ Delivered(r).status = 200
           /\ \E i \in 1..Len(Record(repo[r]).ipLogs) :
                 Record(repo[r]).ipLogs[i].ip = userIp[r]

\* The entries of the record request r wrote.
LogsAfter(r) == store[countDoc[r].id].ipLogs

\* C12 (as claimed): after a request has written its record, the record
\* holds at most one entry per client inside the hour before that write.
C12_OneLiveEntryPerClient ==
    \A r \in Reqs :
        Saved(r) =>
            \A i, j \in 1..Len(LogsAfter(r)) :
                (/\ LogsAfter(r)[i].ip = LogsAfter(r)[j].ip
                 /\ LogsAfter(r)[i].timestamp > Now(r) - Hour
                 /\ LogsAfter(r)[j].timestamp > Now(r) - Hour)
                => i = j

\* C13 (as claimed): the message of a 200 response is the decimal string of
\* the count the store holds right after the request's save.
C13_ReportedIsPersisted ==
    \A r \in Reqs :
        (Saved(r) /\ Delivered(r).status = 200)
        => Delivered(r).body.message = String(store[countDoc[r].id].views)

\* C14: an entry exactly one hour old is not a recent entry: a request whose
\* client's latest entry is exactly one hour old is counted as a new visit,
\* and the write drops that entry.
C14_StrictBoundary ==
    \A r \in Reqs :
        /\ (Decided(r) /\ recentEntry[r] # Undefined)
           => recentEntry[r].timestamp > Now(r) - Hour
        /\ (/\ Saved(r)
            /\ \E i \in OwnBefore(r) : LogsBefore(r)[i].timestamp = Now(r) - Hour
            /\ \A i \in OwnBefore(r) : LogsBefore(r)[i].timestamp <= Now(r) - Hour)
           => /\ Record(repo[r]).views = ViewsBefore(r) + 1
              /\ res[r] = <<Badge(ViewsBefore(r) + 1)>>
              /\ \A i \in 1..Len(LogsAfter(r)) :
                    LogsAfter(r)[i].timestamp # Now(r) - Hour

C14_Witness ==
    \E r \in Reqs :
        /\ Saved(r)
        /\ \E i \in OwnBefore(r) : LogsBefore(r)[i].timestamp = Now(r) - Hour
        /\ \A i \in OwnBefore(r) : LogsBefore(r)[i].timestamp <= Now(r) - Hour
        /\ Record(repo[r]).views = ViewsBefore(r) + 1
        /\ Len(LogsAfter(r)) < Len(LogsBefore(r)) + 1

\* C15: a lost update is reachable.  Its support in every run: a request
\* that is over either wrote exactly the document it held, on top of the
\* version it had read, or was turned down with the stored document left at
\* another version than the one it had read.
C15_StaleSaveLoses ==
    \A r \in Reqs :
        Handled(r) =>
            IF Saved(r)
            THEN store[countDoc[r].id] =
                    [repo |-> repo[r], views |-> countDoc[r].views,
                     ipLogs |-> countDoc[r].ipLogs, v |-> countDoc[r].v]
            ELSE error[r] = "version" => store[countDoc[r].id].v # countDoc[r].v

\* Two new visits of two clients on an existing key, both looked up before
\* either saved; both are over, the stored count went up by 1 only and the
\* entry of request r's client is missing.
C15_LostUpdate ==
    \E r \in Reqs :
        /\ pc[r] \in Terminal
        /\ error[r] = "version"
        /\ recentEntry[r] = Undefined
        /\ before[r] # NoDoc
        /\ before[r].id = countDoc[r].id
        /\ before[r].v = countDoc[r].v
        /\ store[countDoc[r].id].v = countDoc[r].v + 1
        /\ store[countDoc[r].id].views = before[r].views + 1
        /\ \A i \in 1..Len(LogsAfter(r)) : LogsAfter(r)[i].ip # userIp[r]
        /\ \E i \in 1..Len(LogsAfter(r)) :
              \A j \in 1..Len(LogsBefore(r)) :
                  LogsBefore(r)[j].ip # LogsAfter(r)[i].ip

\* C16 (as claimed): a request that has stopped being handled has been
\* answered 200 or 500.
C16_Answered ==
    \A r \in Reqs :
        pc[r] \in Terminal \cup {"aborted"}
        => /\ res[r] # <<>>
           /\ Delivered(r).status \in {200, 500}

\* C17: the identifier of a request is its forwarded-for header when that is
\* present and non-empty and the connection's address otherwise; it is the
\* one looked for, the one pushed, and the one stored.
C17_IdentifierDerivation ==
    \A r \in Reqs :
        LET id == IF req[r].xff = Absent \/ req[r].xff = ""
                  THEN req[r].remoteAddress ELSE req[r].xff
        IN  /\ userIp[r] = id
            /\ (Decided(r) /\ recentEntry[r] # Undefined) => recentEntry[r].ip = id
            /\ Decided(r) =>
                  countDoc[r].ipLogs[Len(countDoc[r].ipLogs)] =
                      [ip |-> id, timestamp |-> Now(r)]
            /\ Saved(r) =>
                  \E i \in 1..Len(LogsAfter(r)) :
                      LogsAfter(r)[i] = [ip |-> id, timestamp |-> Now(r)]

C17_Witness ==
    \E r \in Reqs :
        /\ Saved(r)
        /\ req[r] = [xff |-> "1.2.3.4", remoteAddress |-> "5.6.7.8"]
        /\ \E i \in 1..Len(LogsAfter(r)) : LogsAfter(r)[i].ip = "1.2.3.4"
        /\ \A i \in 1..Len(LogsAfter(r)) : LogsAfter(r)[i].ip # "5.6.7.8"

\* C18 (as claimed): at most one response send is attempted for a request.
C18_SingleSend == \A r \in Reqs : Len(res[r]) <= 1

\* C19: the count of every stored record is at most the number of requests
\* started for its key, and a step raises a stored count by at most 1: it
\* is the one save of a request, which is over with it.
C19_NoOverCount ==
    /\ [](\A i \in 1..Len(store) : store[i].views <= arrived[store[i].repo])
    /\ [][\A i \in 1..Len(store') :
             IF i \in 1..Len(store)
             THEN /\ store'[i].views <= store[i].views + 1
                  /\ store'[i].views # store[i].views =>
                        \E r \in Reqs :
                            /\ pc[r] = "save" /\ pc'[r] \in Terminal
                            /\ repo[r] = store[i].repo
             ELSE store'[i].views = 0]_vars

C19_Witness ==
    \E r \in Reqs :
        /\ Saved(r)
        /\ arrived[repo[r]] >= 2
        /\ Record(repo[r]).views = arrived[repo[r]]
====
